---- MODULE Spec2Model ----
(***************************************************************************)
(* The edit-compile-run core of the Simplicity web IDE:                    *)
(*   Program  (src/components/program_window/program_tab.rs) - the source  *)
(*            text with its lazily refreshed commitment / satisfied slots, *)
(*   Runtime  (same file) - one run of the satisfied program and the       *)
(*            transient success indicator,                                 *)
(*   execute_jet_with_env (src/jet.rs) - the single-jet harness.           *)
(*                                                                         *)
(* A text is a sequence of lexemes.  Results are records                   *)
(* [ok, val, err]: Ok(v) carries a value (a sequence of strings), Err(m)   *)
(* a message.                                                              *)
(***************************************************************************)
EXTENDS Integers, Sequences, FiniteSets, TLC

VARIABLES
    text,            \* Program.text
    cached_text,     \* Program.cached_text
    lazy_cmr,        \* Program.lazy_cmr
    lazy_satisfied,  \* Program.lazy_satisfied
    run_succeeded,   \* Runtime.run_succeeded: <<>> is None, <<b>> is Some(b)
    debug_output,    \* Runtime.debug_output: a sequence of pieces of the string
    error_output,    \* Runtime.error_output
    tasks,           \* the futures spawned by set_success, oldest first
    aborted,         \* the process has panicked
    jet_call,        \* the arguments of the execute_jet_with_env call under test
    pc,              \* position inside update_on_read ("idle" between operations)
    pending,         \* the results update_on_read has computed but not yet stored
    seen,            \* what a subscriber of lazy_cmr observed when it was notified
    last_op,         \* the operation that ran last, with its inputs
    ret,             \* what that operation returned: <<>> or <<value>>
    recomputes,      \* how often the compilation pipeline has run
    origin,          \* for each slot, the pipeline run and the text it came from
    stages,          \* the pipeline stages the last recompute attempted
    phase,           \* where the run of operations stands since the last text write
    reads,           \* reads since the text was last written: 0, 1, or 2 for more
    compile_log      \* the texts the pipeline was run for, oldest first (kept
                     \* under SpecCache only, empty elsewhere)

vars == <<text, cached_text, lazy_cmr, lazy_satisfied, run_succeeded, debug_output,
          error_output, tasks, aborted, jet_call, pc, pending, seen, last_op, ret,
          recomputes, origin, stages, phase, reads, compile_log>>

-----------------------------------------------------------------------------
(* Bounds *)

MaxRecomputes == 3
MaxTasks == 2

-----------------------------------------------------------------------------
(* Lexemes and the sample texts *)

MOD_WITNESS == "mod witness {}\n\n"
MOD_PARAM == "mod param {}\n\n"
MAIN_DBG == "fn main() { dbg!(1); dbg!(2); }"
MAIN_WIT == "fn main() { assert!(witness::A); }"
MAIN_ENV == "fn main() { dbg!(1); jet::check_lock_height(1); }"
WIT_TRUE == "mod witness { const A: bool = true; }"
WIT_BAD == "mod witness { const A: bool = 7; }"
PARAM_BAD == "mod param { const"
JUNK == "@"

Mains == {MAIN_DBG, MAIN_WIT, MAIN_ENV}

\* The texts an edit (or the constructor) may supply.
Texts ==
    { <<>>,
      <<MAIN_DBG>>,
      <<MAIN_ENV>>,
      <<MAIN_WIT>>,
      <<WIT_TRUE, MAIN_WIT>>,
      <<WIT_BAD, MAIN_DBG>>,
      <<PARAM_BAD, MAIN_DBG>>,
      <<JUNK>> }

Envs == {"env_ok", "env_bad"}

\* str::len of a lexeme, in bytes
LexLen(l) ==
    CASE l = MOD_WITNESS -> 16
      [] l = MOD_PARAM -> 14
      [] l = MAIN_DBG -> 31
      [] l = MAIN_WIT -> 34
      [] l = MAIN_ENV -> 49
      [] l = WIT_TRUE -> 37
      [] l = WIT_BAD -> 34
      [] l = PARAM_BAD -> 17
      [] l = JUNK -> 1

\* String::len of a text: the lengths of its lexemes, summed
RECURSIVE TextLen(_)
TextLen(t) == IF t = <<>> THEN 0 ELSE LexLen(Head(t)) + TextLen(Tail(t))

Range(s) == {s[i] : i \in 1..Len(s)}

-----------------------------------------------------------------------------
(* Results *)

Ok(v) == [ok |-> TRUE, val |-> v, err |-> ""]
Err(m) == [ok |-> FALSE, val |-> <<>>, err |-> m]

-----------------------------------------------------------------------------
(* The compiler library, as far as the pipeline's callers see it *)

\* Arguments::parse_from_str
ParseArguments(t) ==
    IF PARAM_BAD \in Range(t) THEN Err("cannot parse arguments") ELSE Ok(<<"args">>)

IsMain(l) == l \in Mains

\* CompiledProgram::new(text, args, false)
CompiledProgramNew(t, args) ==
    LET mains == SelectSeq(t, IsMain)
    IN  IF JUNK \in Range(t) THEN Err("cannot parse program")
        ELSE IF Len(mains) = 0 THEN Err("main function is missing")
        ELSE IF Len(mains) > 1 THEN Err("main function is defined twice")
        ELSE Ok(<<mains[1]>>)

\* CompiledProgram::commit().cmr(): depends on the program structure only
CommitCmr(compiled) == <<"cmr", compiled[1]>>

\* WitnessValues::parse_from_str
ParseWitness(t) ==
    IF WIT_BAD \in Range(t) THEN Err("cannot parse witness")
    ELSE IF WIT_TRUE \in Range(t) THEN Ok(<<"A=true">>)
    ELSE Ok(<<>>)

\* CompiledProgram::satisfy
Satisfy(compiled, witness) ==
    IF compiled[1] = MAIN_WIT /\ witness = <<>>
        THEN Err("witness A is missing")
        ELSE Ok(<<"sat", compiled[1]>> \o witness)

-----------------------------------------------------------------------------
(* Program *)

\* The Program handle as a record of its four signals' values.  Two fields are
\* bookkeeping: runs counts the pipeline runs, origin names for each slot the
\* run that stored it and the text that run compiled (run 0: the constructor's
\* placeholder).
Prog == [text |-> text, cached_text |-> cached_text, lazy_cmr |-> lazy_cmr,
         lazy_satisfied |-> lazy_satisfied, runs |-> recomputes, origin |-> origin]

\* Staleness tests that get it wrong: every read recompiles; only the lengths
\* are compared.
NeedsUpdateAlways(t, c) == TRUE
NeedsUpdateByLength(t, c) == Len(t) # Len(c)

\* update_on_read, lines 59-62: the staleness test
NeedsUpdate(t, c) == t # c

\* A pipeline that parses the witness before it looks at the compilation.
RecomputeWitnessFirst(t) ==
    LET args == ParseArguments(t)
        compiled == IF args.ok THEN CompiledProgramNew(t, args.val) ELSE Err(args.err)
        cmr == IF compiled.ok THEN Ok(CommitCmr(compiled.val)) ELSE Err(compiled.err)
        witness == ParseWitness(t)
        satisfied == IF ~witness.ok THEN Err(witness.err)
                     ELSE IF ~compiled.ok THEN Err(compiled.err)
                     ELSE Satisfy(compiled.val, witness.val)
    IN  [lazy_cmr |-> cmr, lazy_satisfied |-> satisfied,
         stages |-> <<"parse_arguments">>
                    \o (IF args.ok THEN <<"compile">> ELSE <<>>)
                    \o (IF compiled.ok THEN <<"cmr">> ELSE <<>>)
                    \o <<"parse_witness">>
                    \o (IF compiled.ok /\ witness.ok THEN <<"satisfy">> ELSE <<>>)]

\* update_on_read, lines 68-86: one run of the pipeline on the text t.  The slots
\* it yields, and the library calls it made, in order.
Recompute(t) ==
    LET args == ParseArguments(t)
        compiled == IF args.ok THEN CompiledProgramNew(t, args.val) ELSE Err(args.err)
        cmr == IF compiled.ok THEN Ok(CommitCmr(compiled.val)) ELSE Err(compiled.err)
        witness == ParseWitness(t)
        satisfied == IF ~compiled.ok THEN Err(compiled.err)
                     ELSE IF ~witness.ok THEN Err(witness.err)
                     ELSE Satisfy(compiled.val, witness.val)
    IN  [lazy_cmr |-> cmr, lazy_satisfied |-> satisfied,
         stages |-> <<"parse_arguments">>
                    \o (IF args.ok THEN <<"compile">> ELSE <<>>)
                    \o (IF compiled.ok THEN <<"cmr", "parse_witness">> ELSE <<>>)
                    \o (IF compiled.ok /\ witness.ok THEN <<"satisfy">> ELSE <<>>)]

\* An update_on_read that keeps the last successful satisfied program when the
\* new text cannot be satisfied.
update_on_read_split(p) ==
    IF p.text = p.cached_text
        THEN [prog |-> p, stages |-> <<>>, panicked |-> FALSE]
        ELSE LET r == Recompute(p.text)
                 n == p.runs + 1
                 keep == ~r.lazy_satisfied.ok /\ p.lazy_satisfied.ok
             IN  [prog |-> [p EXCEPT !.cached_text = p.text,
                                     !.lazy_cmr = r.lazy_cmr,
                                     !.lazy_satisfied =
                                        IF keep THEN p.lazy_satisfied ELSE r.lazy_satisfied,
                                     !.runs = n,
                                     !.origin = [cmr |-> <<n, p.text>>,
                                                 satisfied |->
                                                    IF keep THEN p.origin.satisfied
                                                    ELSE <<n, p.text>>]],
                  stages |-> r.stages, panicked |-> FALSE]

\* An update_on_read that unwraps the compilation instead of mapping its error.
update_on_read_unwrap(p) ==
    IF p.text = p.cached_text
        THEN [prog |-> p, stages |-> <<>>, panicked |-> FALSE]
        ELSE LET r == Recompute(p.text)
                 n == p.runs + 1
             IN  IF ~r.lazy_cmr.ok
                    THEN [prog |-> [p EXCEPT !.cached_text = p.text],
                          stages |-> r.stages, panicked |-> TRUE]
                    ELSE [prog |-> [p EXCEPT !.cached_text = p.text,
                                             !.lazy_cmr = r.lazy_cmr,
                                             !.lazy_satisfied = r.lazy_satisfied,
                                             !.runs = n,
                                             !.origin = [cmr |-> <<n, p.text>>,
                                                         satisfied |-> <<n, p.text>>]],
                          stages |-> r.stages, panicked |-> FALSE]

\* update_on_read as a whole: the program after the call, the stages the
\* pipeline attempted (none when the cache was fresh), and whether the call
\* panicked: it has no unwrap or expect, every error is mapped into a slot.
update_on_read(p) ==
    IF ~NeedsUpdate(p.text, p.cached_text)
        THEN [prog |-> p, stages |-> <<>>, panicked |-> FALSE]
        ELSE LET r == Recompute(p.text)
                 n == p.runs + 1
             IN  [prog |-> [p EXCEPT !.cached_text = p.text,
                                     !.lazy_cmr = r.lazy_cmr,
                                     !.lazy_satisfied = r.lazy_satisfied,
                                     !.runs = n,
                                     !.origin = [cmr |-> <<n, p.text>>,
                                                 satisfied |-> <<n, p.text>>]],
                  stages |-> r.stages, panicked |-> FALSE]

\* A constructor whose placeholder slots are Ok.
ProgramNewOk(t) ==
    update_on_read([text |-> t, cached_text |-> <<>>, lazy_cmr |-> Ok(<<>>),
                    lazy_satisfied |-> Ok(<<>>), runs |-> 0,
                    origin |-> [cmr |-> <<0, <<>>>>, satisfied |-> <<0, <<>>>>]])

\* Program::new
ProgramNew(t) ==
    update_on_read([text |-> t, cached_text |-> <<>>, lazy_cmr |-> Err(""),
                    lazy_satisfied |-> Err(""), runs |-> 0,
                    origin |-> [cmr |-> <<0, <<>>>>, satisfied |-> <<0, <<>>>>]])

\* Program::cmr and Program::satisfied: the program after the call, and the
\* value returned.
cmr(p) ==
    LET u == update_on_read(p) IN [u |-> u, ret |-> u.prog.lazy_cmr]

satisfied(p) ==
    LET u == update_on_read(p) IN [u |-> u, ret |-> u.prog.lazy_satisfied]

\* Program::is_empty: String::is_empty, the length is zero
is_empty(t) == TextLen(t) = 0

\* str::contains on the two module headers
ContainsModWitness(t) == \E l \in Range(t) : l \in {MOD_WITNESS, WIT_TRUE, WIT_BAD}
ContainsModParam(t) == \E l \in Range(t) : l \in {MOD_PARAM, PARAM_BAD}

\* add_default_modules with the two flags swapped.
add_default_modules_swapped(t) ==
    LET contains_witness == ContainsModWitness(t)
        contains_param == ContainsModParam(t)
        t1 == IF ~contains_witness THEN <<MOD_PARAM>> \o t ELSE t
    IN  IF ~contains_param THEN <<MOD_WITNESS>> \o t1 ELSE t1

\* add_default_modules that pushes the blocks at the end of the text.
add_default_modules_append(t) ==
    LET contains_witness == ContainsModWitness(t)
        contains_param == ContainsModParam(t)
        t1 == IF ~contains_param THEN t \o <<MOD_PARAM>> ELSE t
    IN  IF ~contains_witness THEN t1 \o <<MOD_WITNESS>> ELSE t1

\* Program::add_default_modules: the text it leaves
add_default_modules(t) ==
    LET contains_witness == ContainsModWitness(t)
        contains_param == ContainsModParam(t)
        t1 == IF ~contains_param THEN <<MOD_PARAM>> \o t ELSE t
    IN  IF ~contains_witness THEN <<MOD_WITNESS>> \o t1 ELSE t1

-----------------------------------------------------------------------------
(* Runtime *)

\* crate::function::Runner: the outcome of executing a satisfied program in an
\* environment, and the debug lines it emitted.
RunnerRun(sat, env) ==
    LET main == sat[2]
    IN  CASE main = MAIN_DBG -> [ok |-> TRUE, error |-> "", debug |-> <<"1", "2">>]
          [] main = MAIN_WIT ->
                IF Len(sat) >= 3 /\ sat[3] = "A=true"
                    THEN [ok |-> TRUE, error |-> "", debug |-> <<>>]
                    ELSE [ok |-> FALSE, error |-> "assertion failed", debug |-> <<>>]
          [] main = MAIN_ENV ->
                IF env = "env_ok"
                    THEN [ok |-> TRUE, error |-> "", debug |-> <<"1">>]
                    ELSE [ok |-> FALSE, error |-> "jet failed", debug |-> <<"1">>]

\* Itertools::join
RECURSIVE Join(_, _)
Join(lines, sep) ==
    IF Len(lines) = 0 THEN <<>>
    ELSE IF Len(lines) = 1 THEN <<lines[1]>>
    ELSE <<lines[1], sep>> \o Join(Tail(lines), sep)

\* Runs that leave an output of the previous run behind: the error message on
\* success; the debug lines when nothing is executed.
run_error_kept(p, debug0, error0, env) ==
    LET u == satisfied(p).u
        sat == satisfied(p).ret
        r == RunnerRun(sat.val, env)
    IN  IF ~sat.ok
            THEN [u |-> u, debug_output |-> <<>>, error_output |-> sat.err,
                  success |-> FALSE, executed |-> FALSE]
            ELSE [u |-> u, debug_output |-> Join(r.debug, "\n"),
                  error_output |-> IF r.ok THEN error0 ELSE r.error,
                  success |-> r.ok, executed |-> TRUE]

run_debug_kept(p, debug0, error0, env) ==
    LET u == satisfied(p).u
        sat == satisfied(p).ret
        r == RunnerRun(sat.val, env)
    IN  IF ~sat.ok
            THEN [u |-> u, debug_output |-> debug0, error_output |-> sat.err,
                  success |-> FALSE, executed |-> FALSE]
            ELSE [u |-> u, debug_output |-> Join(r.debug, "\n"),
                  error_output |-> IF r.ok THEN "" ELSE r.error,
                  success |-> r.ok, executed |-> TRUE]

\* Runtime::run on program p in environment env, with debug0 and error0 the two
\* outputs before the call: the program after the read, the two outputs, and the
\* value handed to set_success.
\* A run that takes the satisfied slot as it is, without the freshness check.
run_stale(p, debug0, error0, env) ==
    LET cleared == <<>>
        u == [prog |-> p, stages |-> <<>>, panicked |-> FALSE]
        sat == p.lazy_satisfied
        r == RunnerRun(sat.val, env)
    IN  IF ~sat.ok
            THEN [u |-> u, debug_output |-> cleared, error_output |-> sat.err,
                  success |-> FALSE, executed |-> FALSE]
            ELSE [u |-> u, debug_output |-> Join(r.debug, "\n"),
                  error_output |-> IF r.ok THEN "" ELSE r.error,
                  success |-> r.ok, executed |-> TRUE]

run(p, debug0, error0, env) ==
    LET cleared == <<>>
        u == satisfied(p).u
        sat == satisfied(p).ret
        r == RunnerRun(sat.val, env)
    IN  IF ~sat.ok
            THEN [u |-> u, debug_output |-> cleared, error_output |-> sat.err,
                  success |-> FALSE, executed |-> FALSE]
            ELSE [u |-> u, debug_output |-> Join(r.debug, "\n"),
                  error_output |-> IF r.ok THEN "" ELSE r.error,
                  success |-> r.ok, executed |-> TRUE]

-----------------------------------------------------------------------------
(* The single-jet harness *)

Jets == {"verify", "complement_1", "check_lock_height"}
JetInputs == {<<0>>, <<1>>, <<1, 1>>}
\* What can go wrong inside the library although the harness rules it out.
Faults == {"none", "typecheck", "limits", "exec"}

\* ConstructNode::jet(..).finalize_unpruned()
FinalizeUnpruned(jet, fault) ==
    IF fault = "typecheck" THEN Err("type error") ELSE Ok(<<jet>>)

\* BitMachine::for_program
ForProgram(prog, fault) ==
    IF fault = "limits" THEN Err("limit exceeded") ELSE Ok(prog)

\* BitMachine::input: every jet here takes one bit
MacInput(input) ==
    IF Len(input) = 1 THEN Ok(input) ELSE Err("input has the wrong type")

\* BitMachine::exec
MacExec(jet, input, env, fault) ==
    IF fault = "exec" THEN Err("ReachedPrunedBranch")
    ELSE CASE jet = "verify" ->
                IF input[1] = 1 THEN Ok(<<>>) ELSE Err("JetFailed")
           [] jet = "complement_1" -> Ok(<<1 - input[1]>>)
           [] jet = "check_lock_height" ->
                IF input[1] = 0 \/ env = "env_ok" THEN Ok(<<>>) ELSE Err("JetFailed")

\* execute_jet_with_env: it panics (abort, with the expect message) or returns
execute_jet_with_env(jet, input, env, fault) ==
    LET prog == FinalizeUnpruned(jet, fault)
        mac == ForProgram(prog.val, fault)
        fed == MacInput(input)
        out == MacExec(jet, input, env, fault)
    IN  IF ~prog.ok
            THEN [abort |-> TRUE, ret |-> <<>>, msg |-> "a single jet definitely typechecks"]
        ELSE IF ~mac.ok
            THEN [abort |-> TRUE, ret |-> <<>>, msg |-> "a single jet is within limits"]
        ELSE IF ~fed.ok
            THEN [abort |-> TRUE, ret |-> <<>>, msg |-> "no problem with input"]
        ELSE [abort |-> FALSE, msg |-> "",
              ret |-> <<IF out.ok THEN out ELSE Err("JetFailed")>>]

-----------------------------------------------------------------------------
(* The state machine: one action per operation *)

\* Where the run of operations stands: "A" after a setText, "A_read" after the
\* read that follows it, "B" after a setText of a different text that follows
\* that, "B_read" after the read that follows; "init" and "init_read" outside
\* such a run, and "add_twice" after an add_default_modules that follows another.
PhaseAfterSetText(ph, changed) ==
    IF ph \in {"A_read", "B_read"} /\ changed THEN "B" ELSE "A"

PhaseAfterRead(ph) ==
    CASE ph = "A" -> "A_read"
      [] ph = "B" -> "B_read"
      [] ph = "init" -> "init_read"
      [] ph = "add_twice" -> "init_read"
      [] OTHER -> ph

ReadsAfterRead(n) == IF n = 0 THEN 1 ELSE 2

Idle == ~aborted /\ pc = "idle"

StoreProg(u) ==
    /\ text' = u.prog.text
    /\ cached_text' = u.prog.cached_text
    /\ lazy_cmr' = u.prog.lazy_cmr
    /\ lazy_satisfied' = u.prog.lazy_satisfied
    /\ recomputes' = u.prog.runs
    /\ origin' = u.prog.origin
    /\ stages' = IF u.prog.runs # recomputes THEN u.stages ELSE stages
    /\ aborted' = u.panicked

runtimeVars == <<run_succeeded, debug_output, error_output, tasks>>
progVars == <<text, cached_text, lazy_cmr, lazy_satisfied, recomputes, origin, stages>>
stepVars == <<pc, pending, seen>>

InitProgram ==
    /\ \E t \in Texts :
        LET u == ProgramNew(t)
        IN  /\ text = u.prog.text
            /\ cached_text = u.prog.cached_text
            /\ lazy_cmr = u.prog.lazy_cmr
            /\ lazy_satisfied = u.prog.lazy_satisfied
            /\ recomputes = u.prog.runs
            /\ origin = u.prog.origin
            /\ stages = u.stages
            /\ aborted = u.panicked
    /\ run_succeeded = <<>>
    /\ debug_output = <<>>
    /\ error_output = ""
    /\ tasks = <<>>
    /\ jet_call = <<>>
    /\ pc = "idle"
    /\ pending = <<>>
    /\ seen = <<>>
    /\ last_op = <<"new">>
    /\ ret = <<>>
    /\ phase = "init"
    /\ reads = 0

Init == InitProgram /\ compile_log = <<>>

\* A setText that recompiles at once.
SetTextEager(t) ==
    /\ Idle
    /\ LET u == update_on_read([Prog EXCEPT !.text = t])
       IN  /\ u.prog.runs <= MaxRecomputes
           /\ StoreProg(u)
    /\ last_op' = <<"setText">>
    /\ ret' = <<>>
    /\ phase' = PhaseAfterSetText(phase, t # text)
    /\ reads' = 0
    /\ UNCHANGED <<runtimeVars, jet_call, stepVars>>

\* ProgramTab's update_program_text: program.text.set(..)
SetText(t) ==
    /\ Idle
    /\ text' = t
    /\ last_op' = <<"setText">>
    /\ ret' = <<>>
    /\ phase' = PhaseAfterSetText(phase, t # text)
    /\ reads' = 0
    /\ UNCHANGED <<cached_text, lazy_cmr, lazy_satisfied, recomputes, origin, stages,
                   runtimeVars, aborted, jet_call, stepVars>>

CallAddDefaultModules ==
    /\ Idle
    /\ text' = add_default_modules(text)
    /\ last_op' = <<"add_default_modules">>
    /\ ret' = <<>>
    /\ phase' = IF last_op[1] = "add_default_modules" THEN "add_twice" ELSE "init"
    /\ reads' = 0
    /\ UNCHANGED <<cached_text, lazy_cmr, lazy_satisfied, recomputes, origin, stages,
                   runtimeVars, aborted, jet_call, stepVars>>

CallCmr ==
    /\ Idle
    /\ LET c == cmr(Prog)
       IN  /\ c.u.prog.runs <= MaxRecomputes
           /\ StoreProg(c.u)
           /\ ret' = <<c.ret>>
    /\ last_op' = <<"cmr">>
    /\ phase' = PhaseAfterRead(phase)
    /\ reads' = ReadsAfterRead(reads)
    /\ UNCHANGED <<runtimeVars, jet_call, stepVars>>

CallSatisfied ==
    /\ Idle
    /\ LET c == satisfied(Prog)
       IN  /\ c.u.prog.runs <= MaxRecomputes
           /\ StoreProg(c.u)
           /\ ret' = <<c.ret>>
    /\ last_op' = <<"satisfied">>
    /\ phase' = PhaseAfterRead(phase)
    /\ reads' = ReadsAfterRead(reads)
    /\ UNCHANGED <<runtimeVars, jet_call, stepVars>>

\* Runtime::run, with set_success spawning the indicator task
CallRun(env) ==
    /\ Idle
    /\ Len(tasks) < MaxTasks
    /\ LET r == run(Prog, debug_output, error_output, env)
       IN  /\ r.u.prog.runs <= MaxRecomputes
           /\ StoreProg(r.u)
           /\ debug_output' = r.debug_output
           /\ error_output' = r.error_output
           /\ tasks' = Append(tasks, [success |-> r.success, at |-> "spawned"])
           /\ ret' = <<r.success>>
    /\ last_op' = <<"run", env>>
    /\ phase' = "init_read"
    /\ reads' = ReadsAfterRead(reads)
    /\ UNCHANGED <<run_succeeded, jet_call, stepVars>>

\* set_success, line 127: the oldest task not yet started shows its outcome and
\* starts its 500 ms timer
TaskStart ==
    /\ ~aborted
    /\ \E i \in 1..Len(tasks) :
        /\ tasks[i].at = "spawned"
        /\ \A j \in 1..(i - 1) : tasks[j].at = "sleeping"
        /\ run_succeeded' = <<tasks[i].success>>
        /\ tasks' = [tasks EXCEPT ![i].at = "sleeping"]
    /\ UNCHANGED <<progVars, debug_output, error_output, aborted, jet_call, stepVars,
                   last_op, ret, phase, reads>>

\* A timer whose task ends without clearing the indicator.
TimerFireKeep ==
    /\ ~aborted
    /\ Len(tasks) > 0
    /\ Head(tasks).at = "sleeping"
    /\ tasks' = Tail(tasks)
    /\ UNCHANGED <<progVars, run_succeeded, debug_output, error_output, aborted,
                   jet_call, stepVars, last_op, ret, phase, reads>>

\* A timer whose task clears the error message along with the indicator.
TimerFireClearsError ==
    /\ ~aborted
    /\ Len(tasks) > 0
    /\ Head(tasks).at = "sleeping"
    /\ run_succeeded' = <<>>
    /\ error_output' = ""
    /\ tasks' = Tail(tasks)
    /\ UNCHANGED <<progVars, debug_output, aborted, jet_call, stepVars,
                   last_op, ret, phase, reads>>

\* set_success, lines 128-129: the oldest timer expires and clears the indicator
TimerFire ==
    /\ ~aborted
    /\ Len(tasks) > 0
    /\ Head(tasks).at = "sleeping"
    /\ run_succeeded' = <<>>
    /\ tasks' = Tail(tasks)
    /\ UNCHANGED <<progVars, debug_output, error_output, aborted, jet_call, stepVars,
                   last_op, ret, phase, reads>>

Next ==
    \/ \E t \in Texts : SetText(t) /\ UNCHANGED compile_log
    \/ CallAddDefaultModules /\ UNCHANGED compile_log
    \/ CallCmr /\ UNCHANGED compile_log
    \/ CallSatisfied /\ UNCHANGED compile_log
    \/ \E env \in Envs : CallRun(env) /\ UNCHANGED compile_log
    \/ TaskStart /\ UNCHANGED compile_log
    \/ TimerFire /\ UNCHANGED compile_log

Spec == Init /\ [][Next]_vars

\* The executor polls every spawned future and every timer expires: a task
\* that can take its next step does so eventually.
SpecFair ==
    /\ Spec
    /\ WF_vars(TaskStart /\ UNCHANGED compile_log)
    /\ WF_vars(TimerFire /\ UNCHANGED compile_log)

-----------------------------------------------------------------------------
(* The cache alone: edits and reads, with the log of compilations *)

InitCache == InitProgram /\ compile_log = IF recomputes = 0 THEN <<>> ELSE <<cached_text>>

\* update_on_read, lines 66-76: a pipeline run, of the text it made the snapshot
LogCompile ==
    compile_log' = IF recomputes' # recomputes
                      THEN Append(compile_log, cached_text')
                      ELSE compile_log

NextCache ==
    \/ \E t \in Texts : SetText(t) /\ UNCHANGED compile_log
    \/ CallCmr /\ LogCompile
    \/ CallSatisfied /\ LogCompile

SpecCache == InitCache /\ [][NextCache]_vars

-----------------------------------------------------------------------------
(* The recompute step by step, with a subscriber of lazy_cmr.                *)
(* update_on_read writes three signals one after the other (lines 67, 81 and *)
(* 86) and every write notifies the signal's subscribers before it returns.  *)
(* cached_text and lazy_satisfied are private and only read untracked, so    *)
(* only the write of the public lazy_cmr can have a subscriber.              *)

\* A read that finds the cache fresh returns at line 64.
ReadFresh(which) ==
    /\ Idle
    /\ ~NeedsUpdate(text, cached_text)
    /\ ret' = <<IF which = "cmr" THEN cmr(Prog).ret ELSE satisfied(Prog).ret>>
    /\ last_op' = <<which>>
    /\ phase' = PhaseAfterRead(phase)
    /\ reads' = ReadsAfterRead(reads)
    /\ UNCHANGED <<progVars, runtimeVars, aborted, jet_call, stepVars>>

\* A read that finds the cache stale: lines 66-81, up to lazy_cmr.set(cmr)
ReadBegin(which) ==
    /\ Idle
    /\ NeedsUpdate(text, cached_text)
    /\ LET u == update_on_read(Prog)
       IN  /\ u.prog.runs <= MaxRecomputes
           /\ cached_text' = u.prog.cached_text
           /\ lazy_cmr' = u.prog.lazy_cmr
           /\ recomputes' = u.prog.runs
           /\ origin' = [origin EXCEPT !.cmr = u.prog.origin.cmr]
           /\ stages' = u.stages
           /\ pending' = <<[which |-> which, u |-> u, notified |-> FALSE]>>
    /\ pc' = "cmr_set"
    /\ UNCHANGED <<text, lazy_satisfied, runtimeVars, aborted, jet_call, seen,
                   last_op, ret, phase, reads>>

\* The subscriber of lazy_cmr runs inside lazy_cmr.set: it reads lazy_cmr and
\* calls satisfied(), whose own update_on_read finds the cache fresh.
Notify ==
    /\ ~aborted
    /\ pc = "cmr_set"
    /\ ~pending[1].notified
    /\ LET n == satisfied(Prog)
       IN  /\ n.u.prog = Prog
           /\ seen' = <<[text |-> text, cmr |-> lazy_cmr, satisfied |-> n.ret,
                         refreshed |-> pending[1].u.prog.lazy_satisfied]>>
    /\ pending' = <<[pending[1] EXCEPT !.notified = TRUE]>>
    /\ UNCHANGED <<progVars, runtimeVars, aborted, jet_call, pc, last_op, ret, phase, reads>>

\* Lines 82-86: lazy_satisfied.set(satisfied), and the read returns its slot
ReadFinish ==
    /\ ~aborted
    /\ pc = "cmr_set"
    /\ LET u == pending[1].u
       IN  /\ lazy_satisfied' = u.prog.lazy_satisfied
           /\ origin' = u.prog.origin
           /\ ret' = <<IF pending[1].which = "cmr" THEN lazy_cmr
                       ELSE u.prog.lazy_satisfied>>
    /\ last_op' = <<pending[1].which>>
    /\ phase' = PhaseAfterRead(phase)
    /\ reads' = ReadsAfterRead(reads)
    /\ pc' = "idle"
    /\ pending' = <<>>
    /\ UNCHANGED <<text, cached_text, lazy_cmr, recomputes, stages, runtimeVars,
                   aborted, jet_call, seen>>

NextNotify ==
    \/ \E t \in Texts : SetText(t) /\ UNCHANGED compile_log
    \/ \E which \in {"cmr", "satisfied"} : ReadFresh(which) /\ UNCHANGED compile_log
    \/ \E which \in {"cmr", "satisfied"} : ReadBegin(which) /\ UNCHANGED compile_log
    \/ Notify /\ UNCHANGED compile_log
    \/ ReadFinish /\ UNCHANGED compile_log

SpecNotify == Init /\ [][NextNotify]_vars

-----------------------------------------------------------------------------
(* The harness on its own: every call of execute_jet_with_env *)

InitJet ==
    /\ Init
    /\ text = <<>>

DrawJetCall ==
    /\ ~aborted
    /\ jet_call = <<>>
    /\ \E jet \in Jets, input \in JetInputs, env \in Envs, fault \in Faults :
        jet_call' = <<[jet |-> jet, input |-> input, env |-> env, fault |-> fault]>>
    /\ UNCHANGED <<progVars, runtimeVars, aborted, stepVars, last_op, ret, phase, reads>>

ExecuteJet ==
    /\ ~aborted
    /\ jet_call # <<>>
    /\ last_op[1] # "execute_jet"
    /\ LET c == jet_call[1]
           r == execute_jet_with_env(c.jet, c.input, c.env, c.fault)
       IN  /\ aborted' = r.abort
           /\ ret' = r.ret
    /\ last_op' = <<"execute_jet">>
    /\ UNCHANGED <<progVars, runtimeVars, jet_call, stepVars, phase, reads>>

NextJet ==
    \/ DrawJetCall /\ UNCHANGED compile_log
    \/ ExecuteJet /\ UNCHANGED compile_log

SpecJet == InitJet /\ [][NextJet]_vars

-----------------------------------------------------------------------------
(* Properties *)

ReadOps == {"cmr", "satisfied"}

\* The slot a read returns
Slot(q, which) == IF which = "cmr" THEN q.lazy_cmr ELSE q.lazy_satisfied

\* C1: once the text has been read, a further cmr(), satisfied() or run before
\* the next write of the text leaves the counter of pipeline runs, the snapshot
\* and both slots as they are, and cmr() / satisfied() return the slot as it
\* was stored before the call.
IdempotentReadStep ==
    (reads >= 1 /\ last_op'[1] \in ReadOps \cup {"run"}) =>
        /\ recomputes' = recomputes
        /\ cached_text' = cached_text
        /\ lazy_cmr' = lazy_cmr
        /\ lazy_satisfied' = lazy_satisfied
        /\ last_op'[1] \in ReadOps => ret' = <<Slot(Prog, last_op'[1])>>
IdempotentRead == [][IdempotentReadStep]_vars

\* A second read of a compiled text has happened.
IdempotentReadWitness ==
    /\ reads = 2
    /\ last_op[1] = "cmr"
    /\ lazy_cmr.ok
    /\ recomputes >= 1

\* C2: after setText(A); read; setText(B); read with A # B, the second read
\* returns the pipeline's output for B.
CacheCorrectness ==
    phase = "B_read" => ret = <<Slot(Recompute(text), last_op[1])>>

CacheCorrectnessWitness ==
    /\ phase = "B_read"
    /\ last_op[1] = "satisfied"
    /\ ret[1].ok
    /\ recomputes >= 2

\* C3: between operations, cached_text = text exactly when the two slots hold
\* the pipeline's outputs for the current text.
SnapshotInvariant ==
    pc = "idle" =>
        ((cached_text = text) <=>
            /\ lazy_cmr = Recompute(text).lazy_cmr
            /\ lazy_satisfied = Recompute(text).lazy_satisfied)

\* C4: both slots come from the same pipeline run on the same text, which is the
\* snapshot; and once the text has been read and cmr() is Ok, that text is the
\* current one.
ConsistentSlots ==
    pc = "idle" =>
        /\ origin.cmr = origin.satisfied
        /\ origin.cmr[1] > 0 =>
            /\ origin.cmr[2] = cached_text
            /\ lazy_cmr = Recompute(cached_text).lazy_cmr
            /\ lazy_satisfied = Recompute(cached_text).lazy_satisfied
        /\ (reads >= 1 /\ lazy_cmr.ok) =>
            /\ origin.satisfied[2] = text
            /\ origin.satisfied[1] = recomputes

\* A text whose satisfaction fails was compiled after one that could be satisfied.
ConsistentSlotsWitness ==
    /\ reads >= 1
    /\ last_op[1] = "satisfied"
    /\ lazy_cmr.ok
    /\ ~lazy_satisfied.ok
    /\ origin.cmr[1] >= 2

\* C5: what a recompute stores, by the first stage that fails: both Err, and no
\* witness parsing or satisfaction attempted, when argument parsing or
\* compilation fails; Ok and Err when witness parsing or satisfaction fails;
\* both Ok otherwise.  Never Err with Ok.
PipelineOutputContract ==
    (pc = "idle" /\ origin.cmr[1] > 0) =>
        LET t == cached_text
            args == ParseArguments(t)
            compiled == IF args.ok THEN CompiledProgramNew(t, args.val) ELSE args
            witness == ParseWitness(t)
            sat == IF witness.ok THEN Satisfy(compiled.val, witness.val) ELSE witness
        IN  /\ ~compiled.ok =>
                /\ ~lazy_cmr.ok
                /\ ~lazy_satisfied.ok
                /\ "parse_witness" \notin Range(stages)
                /\ "satisfy" \notin Range(stages)
            /\ (compiled.ok /\ ~sat.ok) => (lazy_cmr.ok /\ ~lazy_satisfied.ok)
            /\ (compiled.ok /\ sat.ok) => (lazy_cmr.ok /\ lazy_satisfied.ok)
            /\ ~(~lazy_cmr.ok /\ lazy_satisfied.ok)

\* A recompute stopped at a failing compilation.
PipelineOutputContractWitness ==
    /\ origin.cmr[1] > 0
    /\ ~lazy_cmr.ok
    /\ ~lazy_satisfied.ok
    /\ stages = <<"parse_arguments", "compile">>

\* C6: a run signals success with error_output empty when the execution
\* succeeds, and failure with error_output the failure's message otherwise; a
\* text that compiles, is satisfied and executes successfully gives Ok in both
\* slots, success and an empty error_output.
RunOutcome ==
    last_op[1] = "run" =>
        LET env == last_op[2]
            success == ret[1]
            r == RunnerRun(lazy_satisfied.val, env)
            fresh == Recompute(text)
        IN  /\ success \in BOOLEAN
            /\ Len(tasks) > 0 => tasks[Len(tasks)].success = success
            /\ success => (error_output = "" /\ lazy_satisfied.ok /\ r.ok)
            /\ ~success =>
                error_output = (IF lazy_satisfied.ok THEN r.error ELSE lazy_satisfied.err)
            /\ (fresh.lazy_cmr.ok /\ fresh.lazy_satisfied.ok
                    /\ RunnerRun(fresh.lazy_satisfied.val, env).ok) =>
                (lazy_cmr.ok /\ lazy_satisfied.ok /\ success /\ error_output = "")

\* A run succeeded after a run that had failed.
RunOutcomeWitness ==
    /\ last_op[1] = "run"
    /\ ret = <<TRUE>>
    /\ error_output = ""
    /\ Len(tasks) = 2
    /\ tasks[1].success = FALSE

\* C7: after a run, debug_output is the debug lines of this execution joined by
\* line breaks (empty when nothing was executed) and error_output is this run's
\* message.
NoAccumulation ==
    last_op[1] = "run" =>
        LET r == RunnerRun(lazy_satisfied.val, last_op[2])
        IN  /\ debug_output =
                (IF lazy_satisfied.ok THEN Join(r.debug, "\n") ELSE <<>>)
            /\ error_output =
                (IF ~lazy_satisfied.ok THEN lazy_satisfied.err
                 ELSE IF r.ok THEN "" ELSE r.error)

\* A run that executed nothing followed a run that had succeeded.
NoAccumulationWitness ==
    /\ last_op[1] = "run"
    /\ ~lazy_satisfied.ok
    /\ debug_output = <<>>
    /\ Len(tasks) = 2
    /\ tasks[1].success = TRUE

\* C8: a step of setText or add_default_modules leaves the snapshot, both slots
\* and the counter of pipeline runs as they are; the pipeline runs only in a
\* step of cmr(), satisfied() or run.
LazyMutationStep ==
    /\ last_op'[1] \in {"setText", "add_default_modules"} =>
        UNCHANGED <<cached_text, lazy_cmr, lazy_satisfied, recomputes, origin>>
    /\ recomputes' # recomputes => last_op'[1] \in ReadOps \cup {"run"}
LazyMutation == [][LazyMutationStep]_vars

\* The text was written after a compilation and has not been read since.
LazyMutationWitness ==
    /\ last_op[1] \in {"setText", "add_default_modules"}
    /\ text # cached_text
    /\ recomputes >= 1
    /\ lazy_cmr.ok
    /\ ~Recompute(text).lazy_cmr.ok

\* C9: no subscriber sees the commitment of the new text together with a
\* satisfied result that is not the one this recompute stores.
AtomicRecompute ==
    seen # <<>> => seen[1].satisfied = seen[1].refreshed

\* C10: execute_jet_with_env returns Err(JetFailed) exactly when the jet's own
\* failure condition triggered during execution; every other failure aborts,
\* and a jet failure does not.
JetFailureTriggered(c) ==
    /\ FinalizeUnpruned(c.jet, c.fault).ok
    /\ ForProgram(<<c.jet>>, c.fault).ok
    /\ MacInput(c.input).ok
    /\ MacExec(c.jet, c.input, c.env, c.fault) = Err("JetFailed")

OtherFailure(c) ==
    \/ ~FinalizeUnpruned(c.jet, c.fault).ok
    \/ ~ForProgram(<<c.jet>>, c.fault).ok
    \/ ~MacInput(c.input).ok
    \/ /\ ~MacExec(c.jet, c.input, c.env, c.fault).ok
       /\ MacExec(c.jet, c.input, c.env, c.fault) # Err("JetFailed")

NoCrash ==
    /\ ~aborted
    /\ (pc = "idle" /\ origin.cmr[1] > 0) =>
        LET t == cached_text
            args == ParseArguments(t)
            compiled == IF args.ok THEN CompiledProgramNew(t, args.val) ELSE args
            witness == ParseWitness(t)
            sat == IF witness.ok THEN Satisfy(compiled.val, witness.val) ELSE witness
        IN  /\ ~compiled.ok =>
                (lazy_cmr = Err(compiled.err) /\ lazy_satisfied = Err(compiled.err))
            /\ (compiled.ok /\ ~sat.ok) => lazy_satisfied = Err(sat.err)
    /\ last_op[1] = "run" =>
        LET r == RunnerRun(lazy_satisfied.val, last_op[2])
        IN  /\ ~lazy_satisfied.ok => error_output = lazy_satisfied.err
            /\ (lazy_satisfied.ok /\ ~r.ok) => error_output = r.error

\* A run failed at run time and its message is in error_output.
NoCrashWitness ==
    /\ ~aborted
    /\ last_op[1] = "run"
    /\ lazy_satisfied.ok
    /\ error_output = "jet failed"

\* C12: add_default_modules is idempotent: after it has run both headers are
\* in the text, and running it again directly afterwards leaves the text as
\* it is.
AddDefaultModulesIdempotentStep ==
    last_op'[1] = "add_default_modules" =>
        /\ ContainsModWitness(text') /\ ContainsModParam(text')
        /\ last_op[1] = "add_default_modules" => text' = text

AddDefaultModulesIdempotent == [][AddDefaultModulesIdempotentStep]_vars

\* add_default_modules has run twice in a row, the first time on a text that
\* lacked a header.
AddDefaultModulesIdempotentWitness ==
    /\ last_op[1] = "add_default_modules"
    /\ phase = "add_twice"
    /\ MOD_PARAM \in Range(text)

\* C13: add_default_modules inserts exactly the blocks whose header is missing,
\* in front of the text, which stays as the suffix; on a text with neither
\* header both are present afterwards and the length grows by the lengths of
\* the two blocks.
IsSuffix(old, new) ==
    /\ Len(old) <= Len(new)
    /\ SubSeq(new, Len(new) - Len(old) + 1, Len(new)) = old

Count(l, t) == Len(SelectSeq(t, LAMBDA x : x = l))

AddDefaultModulesInsertsStep ==
    (last_op'[1] = "add_default_modules" /\ phase' \in {"init", "add_twice"}) =>
        LET cw == ContainsModWitness(text)
            cp == ContainsModParam(text)
            w == IF cw THEN <<>> ELSE <<MOD_WITNESS>>
            p == IF cp THEN <<>> ELSE <<MOD_PARAM>>
        IN  /\ IsSuffix(text, text')
            /\ SubSeq(text', 1, Len(text') - Len(text)) = w \o p
            /\ Count(MOD_WITNESS, text') = Count(MOD_WITNESS, text) + Len(w)
            /\ Count(MOD_PARAM, text') = Count(MOD_PARAM, text) + Len(p)
            /\ (~cw /\ ~cp) =>
                /\ ContainsModWitness(text') /\ ContainsModParam(text')
                /\ TextLen(text') = TextLen(text) + LexLen(MOD_WITNESS) + LexLen(MOD_PARAM)

AddDefaultModulesInserts == [][AddDefaultModulesInsertsStep]_vars

\* add_default_modules has put both blocks in front of a text that had neither.
AddDefaultModulesInsertsWitness ==
    /\ last_op[1] = "add_default_modules"
    /\ Len(text) = 3
    /\ text[1] = MOD_WITNESS /\ text[2] = MOD_PARAM /\ text[3] \in Mains
    /\ TextLen(text) = 30 + LexLen(text[3])

\* C14: with the empty text, at construction or after edits, is_empty is true
\* and cmr() and satisfied() return Err; is_empty is true for no other text.
EmptyProgram ==
    /\ (pc = "idle" /\ text = <<>>) =>
        /\ is_empty(text)
        /\ ~cmr(Prog).ret.ok
        /\ ~satisfied(Prog).ret.ok
        /\ (last_op[1] \in {"cmr", "satisfied"} => ~ret[1].ok)
    /\ is_empty(text) => text = <<>>

\* The text was edited back to empty and compiled, and a read returned Err.
EmptyProgramWitness ==
    /\ text = <<>>
    /\ is_empty(text)
    /\ recomputes >= 2
    /\ origin.cmr[2] = <<>>
    /\ last_op[1] = "satisfied"
    /\ ~ret[1].ok

\* C15: while a run's own timer is pending, run_succeeded shows that run's
\* outcome: the indicator is that of the latest run whose task has set it, and
\* no earlier run's timer clears or overwrites it.
Sleeping == {i \in 1..Len(tasks) : tasks[i].at = "sleeping"}

TransientIndicatorWindow ==
    Sleeping # {} =>
        LET latest == CHOOSE i \in Sleeping : \A j \in Sleeping : j <= i
        IN  run_succeeded = <<tasks[latest].success>>

\* C16 as stated: the pipeline is run at most once for each distinct text, so
\* no text is in the log of compilations twice.
CompiledOncePerText ==
    \A i, j \in 1..Len(compile_log) : i # j => compile_log[i] # compile_log[j]

\* C16, amended: the pipeline is never run for a text equal to the snapshot, so
\* it runs at most once for each change of the text read: every compilation
\* is of a text other than the one compiled just before, the snapshot is the
\* text compiled last and, after a read, the text; a text that comes back
\* after another was compiled is compiled again.
CompiledOncePerChange ==
    /\ Len(compile_log) = recomputes
    /\ \A i \in 1..(Len(compile_log) - 1) : compile_log[i] # compile_log[i + 1]
    /\ compile_log # <<>> => compile_log[Len(compile_log)] = cached_text
    /\ last_op[1] \in ReadOps => cached_text = text

\* A, then B, then A again were each compiled on a read, and A is read again
\* without a further compilation.
CompiledOncePerChangeWitness ==
    /\ Len(compile_log) = 3
    /\ compile_log[1] = compile_log[3]
    /\ compile_log[1] # compile_log[2]
    /\ last_op[1] \in ReadOps
    /\ reads = 2

\* C17: if from some point on no run is started, then from some point on
\* run_succeeded is None for good; and once every task has ended it is None
\* and stays None until a task of a later run sets it.
RunStarted == Len(tasks') > Len(tasks)

IndicatorClears ==
    /\ <>[][~RunStarted]_vars => <>[](run_succeeded = <<>> /\ tasks = <<>>)
    /\ [](tasks = <<>> => run_succeeded = <<>>)
    /\ [][(tasks = <<>> /\ tasks' = <<>>) => run_succeeded' = <<>>]_vars

\* A run was made, its task has ended and the indicator is None again.
IndicatorClearsWitness ==
    /\ last_op[1] = "run"
    /\ ret # <<>>
    /\ tasks = <<>>
    /\ run_succeeded = <<>>

\* C18: a step of an indicator task changes run_succeeded only: the text, the
\* snapshot, both slots, debug_output and error_output stay as they are, and
\* nothing but a task step changes run_succeeded; a run has written its
\* debug_output and error_output when it returns, while its task has not yet
\* taken a step.
TaskStep == tasks' # tasks /\ Len(tasks') <= Len(tasks)

TimersTouchIndicatorOnlyStep ==
    /\ TaskStep => UNCHANGED <<text, cached_text, lazy_cmr, lazy_satisfied,
                               debug_output, error_output>>
    /\ run_succeeded' # run_succeeded => TaskStep
    /\ RunStarted =>
        LET r == run(Prog, debug_output, error_output, last_op'[2])
        IN  /\ tasks'[Len(tasks')] = [success |-> r.success, at |-> "spawned"]
            /\ debug_output' = r.debug_output
            /\ error_output' = r.error_output
            /\ ret' = <<r.success>>

TimersTouchIndicatorOnly == [][TimersTouchIndicatorOnlyStep]_vars

\* A failed run's task has set and cleared the indicator, and the run's error
\* message and debug output are still there.
TimersTouchIndicatorOnlyWitness ==
    /\ last_op[1] = "run"
    /\ ret = <<FALSE>>
    /\ tasks = <<>>
    /\ run_succeeded = <<>>
    /\ error_output = "jet failed"
    /\ debug_output # <<>>

\* C19: a run reads the satisfied slot through the freshness check: afterwards
\* the snapshot is the text of the call, and a program that is executed is the
\* one the pipeline yields for that text; when the slot is Err nothing is
\* executed, error_output is the slot's message, debug_output is empty and the
\* run signals failure.
RunFreshStep ==
    RunStarted =>
        LET env == last_op'[2]
            r == run(Prog, debug_output, error_output, env)
            fresh == Recompute(text).lazy_satisfied
        IN  /\ text' = text
            /\ cached_text' = text
            /\ lazy_satisfied'.ok =>
                /\ lazy_satisfied' = fresh
                /\ r.executed
                /\ debug_output' = Join(RunnerRun(fresh.val, env).debug, "\n")
                /\ ret' = <<RunnerRun(fresh.val, env).ok>>
            /\ ~lazy_satisfied'.ok =>
                /\ ~r.executed
                /\ error_output' = lazy_satisfied'.err
                /\ debug_output' = <<>>
                /\ ret' = <<FALSE>>
                /\ tasks'[Len(tasks')].success = FALSE

RunFresh == [][RunFreshStep]_vars

\* A run was the first read after an edit and executed the edited program.
RunFreshWitness ==
    /\ last_op[1] = "run"
    /\ reads = 1
    /\ recomputes >= 2
    /\ origin.satisfied = <<recomputes, text>>
    /\ lazy_satisfied.ok
    /\ ret = <<TRUE>>
    /\ debug_output # <<>>

\* C20: after a run, error_output is empty exactly when the run succeeded.
FailureCarriesMessage ==
    last_op[1] = "run" => (error_output = "" <=> ret = <<TRUE>>)

====
